---- MODULE Spec2Model ----
(***************************************************************************)
(* A model of buneary, a RabbitMQ command line client.                     *)
(*                                                                         *)
(*   - RabbitMQConfig.URI / apiURI: pure functions over the address,       *)
(*     strings are sequences of one-character strings.                     *)
(*   - the buneary provider: the fields channel and client, the AMQP       *)
(*     connections and channels it opens (PublishMessage, Close), with     *)
(*     one program position per running call so that calls can be issued   *)
(*     one after another (SpecSeq) or concurrently (SpecConc).             *)
(*   - the management API operations against a broker holding exchanges    *)
(*     and queues (SpecMgmt).                                              *)
(*   - buneary publish: runPublish parses the headers option and calls     *)
(*     PublishMessage on a provider of its own (SpecCLI).                  *)
(***************************************************************************)
EXTENDS Integers, Sequences, FiniteSets, TLC

VARIABLES
  \* ---- RabbitMQConfig and the result of URI()/apiURI() ----
  config,      \* [Address, User, Password], strings as sequences of characters
  uriOut,      \* [fn, val]: the last URI function called and what it returned
  \* ---- the buneary instance and the AMQP library's objects ----
  channel,     \* b.channel: 0 is nil, otherwise an index into chans
  client,      \* b.client: 0 is nil, otherwise an index into clients
  conns,       \* every amqp.Connection ever dialled: [owner, open]
  chans,       \* every amqp.Channel ever opened: [owner, conn, open, confirm]
  clients,     \* every rabbithole.Client ever created:
               \* [owner, uri, user, password, insecure]
  frames,      \* frames accepted by a channel: [call, chan, args]
  pc,          \* per caller: position inside the running operation
  op,          \* per caller: the operation it runs
  call,        \* per caller: the number of the running call (0 when idle)
  argMessage,  \* per caller: the Message passed to PublishMessage
  conn,        \* per caller: setupChannel's local variable conn (0: unset)
  err,         \* per caller: the error the operation returns
  used,        \* per caller: the calls whose handles the operation acted through
  overlap,     \* per caller: the calls that ran while its operation was running
  ncalls,      \* number of calls started so far
  prev,        \* [op, err] of the call that returned last
  \* ---- the broker behind the management API ----
  exchanges,   \* the server's exchanges, in the order it lists them
  queues,      \* the server's queues, in the order it lists them
  bindings,    \* the server's bindings, in the order it lists them
  request,     \* the request body GetMessages built last
  ret,         \* what the last management operation returned
  \* ---- the command line: buneary publish ----
  options,     \* publishOptions: [headers], a string
  args,        \* the positional arguments: [exchange, routingKey, body]
  cli          \* runPublish: [pc, err], its position and what it returned

uvars == <<config, uriOut>>
pvars == <<channel, client, conns, chans, clients, frames, pc, op, call,
           argMessage, conn, err, used, overlap, ncalls, prev>>
mvars == <<exchanges, queues, bindings, request, ret>>
cvars == <<options, args, cli>>
vars  == <<config, uriOut, channel, client, conns, chans, clients, frames, pc,
           op, call, argMessage, conn, err, used, overlap, ncalls, prev,
           exchanges, queues, bindings, request, ret, options, args, cli>>

(***************************************************************************)
(* Bounds                                                                  *)
(***************************************************************************)
MaxAddrLen == 4
MaxCalls == 3
MaxConcCalls == 2
MaxMgmtCalls == 2
MaxMsgs == 2
MaxHeaderLen == 6

(***************************************************************************)
(* Strings                                                                 *)
(***************************************************************************)
Colon == ":"
AddrChars == {"h", "7", Colon}

RECURSIVE SeqsUpTo(_, _)
SeqsUpTo(S, n) ==
  IF n = 0 THEN {<<>>}
  ELSE LET shorter == SeqsUpTo(S, n - 1)
       IN shorter \cup {Append(s, c) : s \in {t \in shorter : Len(t) = n - 1}, c \in S}

IndexOf(s, c) ==
  IF \E i \in 1..Len(s) : s[i] = c
  THEN CHOOSE i \in 1..Len(s) : s[i] = c /\ \A j \in 1..(i - 1) : s[j] # c
  ELSE 0

\* strings.Split(s, sep) for a one-character separator
RECURSIVE Split(_, _)
Split(s, sep) ==
  LET i == IndexOf(s, sep)
  IN IF i = 0 THEN <<s>>
     ELSE <<SubSeq(s, 1, i - 1)>> \o Split(SubSeq(s, i + 1, Len(s)), sep)

Digit(d) == CASE d = 0 -> "0" [] d = 1 -> "1" [] d = 2 -> "2" [] d = 3 -> "3"
              [] d = 4 -> "4" [] d = 5 -> "5" [] d = 6 -> "6" [] d = 7 -> "7"
              [] d = 8 -> "8" [] d = 9 -> "9"

\* strconv.Itoa for a non-negative number
RECURSIVE Itoa(_)
Itoa(n) == IF n < 10 THEN <<Digit(n)>> ELSE Append(Itoa(n \div 10), Digit(n % 10))

amqpDefaultPort == 5672
apiDefaultPort == 15672

AmqpScheme == <<"a", "m", "q", "p", ":", "/", "/">>
HttpsScheme == <<"h", "t", "t", "p", "s", ":", "/", "/">>

URIPortFromSecondToken(a) ==
  LET tokens == Split(a.Address, Colon)
      port == IF Len(tokens) >= 2 THEN tokens[2] ELSE Itoa(amqpDefaultPort)
  IN AmqpScheme \o a.User \o <<":">> \o a.Password \o <<"@">> \o tokens[1]
       \o <<":">> \o port

\* RabbitMQConfig.URI
URI(a) ==
  LET tokens == Split(a.Address, Colon)
      port == IF Len(tokens) = 2 THEN tokens[2] ELSE Itoa(amqpDefaultPort)
  IN AmqpScheme \o a.User \o <<":">> \o a.Password \o <<"@">> \o tokens[1]
       \o <<":">> \o port

apiURIDefaultAmqp(a) ==
  LET tokens == Split(a.Address, Colon)
      port == IF Len(tokens) = 2 THEN tokens[2] ELSE Itoa(amqpDefaultPort)
  IN HttpsScheme \o tokens[1] \o <<":">> \o port

\* RabbitMQConfig.apiURI
apiURI(a) ==
  LET tokens == Split(a.Address, Colon)
      port == IF Len(tokens) = 2 THEN tokens[2] ELSE Itoa(apiDefaultPort)
  IN HttpsScheme \o tokens[1] \o <<":">> \o port

\* url.Parse, called by rabbithole.NewTLSClient on apiURI(): the port after
\* the host has to be made of digits
Digits == {"0", "1", "2", "3", "4", "5", "6", "7", "8", "9"}
ParsesAsURL(a) ==
  LET tokens == Split(a.Address, Colon)
      port == IF Len(tokens) = 2 THEN tokens[2] ELSE Itoa(apiDefaultPort)
  IN \A i \in 1..Len(port) : port[i] \in Digits

Addresses == SeqsUpTo(AddrChars, MaxAddrLen)
Users == {<<"u">>, <<"g", "u">>}
Passwords == {<<"p">>}
Configs == [Address : Addresses, User : Users, Password : Passwords]

NoURI == [fn |-> "none", val |-> <<>>]

(***************************************************************************)
(* The buneary instance: channel, client and the AMQP library's objects    *)
(***************************************************************************)
Procs == {1, 2}
SeqProcs == {1}

Nil == "nil"
ErrClosing == "closing AMQP channel"
ErrDialling == "dialling RabbitMQ server"
ErrEstablishing == "establishing AMQP channel"
ErrPublishing == "publishing message"
ErrClient == "creating rabbit-hole client"
ErrRequest == "management request failed"
Panic == "nil pointer dereference"

ClientOps == {"CreateExchange", "CreateQueue", "CreateBinding", "GetExchanges",
              "GetQueues", "GetBindings", "DeleteExchange", "DeleteQueue"}

Running(p) == pc[p] \notin {"idle", "crashed"}

\* Message values a caller passes, and the zero value of Message
Messages ==
  {[Target |-> [Name |-> "a"], Headers |-> {<<"h", "v">>}, RoutingKey |-> "k",
    Body |-> "x"],
   [Target |-> [Name |-> "b"], Headers |-> {}, RoutingKey |-> "", Body |-> "yy"]}
NoMessage == [Target |-> [Name |-> ""], Headers |-> {}, RoutingKey |-> "", Body |-> ""]

\* time.Now(): a reading of the wall clock, never the zero time (0)
Times == {1, 2}

messageArgsNoTimestamp(message, now) ==
  [exchange |-> message.Target.Name, key |-> message.RoutingKey,
   mandatory |-> FALSE, immediate |-> FALSE,
   msg |-> [Headers |-> message.Headers, Timestamp |-> 0, Body |-> message.Body]]

\* messageArgs: exchange, key, mandatory, immediate and the amqp.Publishing
messageArgs(message, now) ==
  [exchange |-> message.Target.Name, key |-> message.RoutingKey,
   mandatory |-> FALSE, immediate |-> FALSE,
   msg |-> [Headers |-> message.Headers, Timestamp |-> now, Body |-> message.Body]]

\* amqp.Channel.Close: an open channel is shut down whether or not the
\* close handshake succeeds; a channel that is already closed answers
\* ErrClosed ("channel/connection is not open").
ChannelClose(c, ok) ==
  IF chans[c].open
  THEN [err |-> IF ok THEN Nil ELSE "close handshake failed",
        chans |-> [chans EXCEPT ![c].open = FALSE]]
  ELSE [err |-> "channel/connection is not open", chans |-> chans]

CloseLeavesOpen(ok) == [err |-> Nil, chans |-> chans, used |-> {}]

\* buneary.Close, and the same statements at the head of setupChannel
Close(ok) ==
  IF channel # 0
  THEN LET r == ChannelClose(channel, ok)
       IN [err |-> IF r.err # Nil THEN ErrClosing ELSE Nil, chans |-> r.chans,
           used |-> {chans[channel].owner}]
  ELSE [err |-> Nil, chans |-> chans, used |-> {}]

\* a caller starts operation o on the instance
Start(p, o, first, bound, m) ==
  /\ pc[p] = "idle"
  /\ ncalls < bound
  /\ ncalls' = ncalls + 1
  /\ pc' = [pc EXCEPT ![p] = first]
  /\ op' = [op EXCEPT ![p] = o]
  /\ call' = [call EXCEPT ![p] = ncalls + 1]
  /\ argMessage' = [argMessage EXCEPT ![p] = m]
  /\ conn' = [conn EXCEPT ![p] = 0]
  /\ err' = [err EXCEPT ![p] = Nil]
  /\ used' = [used EXCEPT ![p] = {}]
  /\ overlap' = [q \in Procs |->
                   IF q = p THEN {call[r] : r \in {x \in Procs \ {p} : Running(x)}}
                   ELSE IF Running(q) THEN overlap[q] \cup {ncalls + 1}
                   ELSE overlap[q]]
  /\ UNCHANGED <<channel, client, conns, chans, clients, frames, prev>>
  /\ UNCHANGED <<uvars, mvars>>

StartPublishMessage(p, bound) ==
  /\ \E m \in Messages : Start(p, "PublishMessage", "setupChannel", bound, m)
  /\ UNCHANGED cvars

StartClose(p, bound) ==
  /\ Start(p, "Close", "close", bound, NoMessage)
  /\ UNCHANGED cvars

StartClientOp(p, bound) ==
  /\ \E o \in ClientOps : Start(p, o, "setupClient", bound, NoMessage)
  /\ UNCHANGED cvars

\* setupChannel, first part: close the channel the instance still holds
SetupChannelClose(p) ==
  /\ pc[p] = "setupChannel"
  /\ \E ok \in BOOLEAN :
       LET r == Close(ok)
       IN /\ chans' = r.chans
          /\ used' = [used EXCEPT ![p] = @ \cup r.used]
          /\ err' = [err EXCEPT ![p] = r.err]
          /\ pc' = [pc EXCEPT ![p] = IF r.err # Nil THEN "done" ELSE "dial"]
  /\ UNCHANGED <<channel, client, conns, clients, frames, op, call, argMessage, conn,
                 ncalls, overlap, prev>>
  /\ UNCHANGED <<uvars, mvars, cvars>>

\* setupChannel: conn, err := amqp.Dial(b.config.URI())
SetupChannelDial(p) ==
  /\ pc[p] = "dial"
  /\ \E ok \in BOOLEAN :
       IF ok
       THEN /\ conns' = Append(conns, [owner |-> call[p], open |-> TRUE])
            /\ conn' = [conn EXCEPT ![p] = Len(conns) + 1]
            /\ pc' = [pc EXCEPT ![p] = "openChannel"]
            /\ err' = err
       ELSE /\ err' = [err EXCEPT ![p] = ErrDialling]
            /\ pc' = [pc EXCEPT ![p] = "done"]
            /\ UNCHANGED <<conns, conn>>
  /\ UNCHANGED <<channel, client, chans, clients, frames, op, call, argMessage, used,
                 ncalls, overlap, prev>>
  /\ UNCHANGED <<uvars, mvars, cvars>>

\* setupChannel: b.channel, err = conn.Channel()
SetupChannelOpen(p) ==
  /\ pc[p] = "openChannel"
  /\ \E ok \in BOOLEAN :
       IF ok
       THEN /\ chans' = Append(chans, [owner |-> call[p], conn |-> conn[p],
                                       open |-> TRUE, confirm |-> FALSE])
            /\ channel' = Len(chans) + 1
            /\ pc' = [pc EXCEPT ![p] = "publish"]
            /\ err' = err
       ELSE /\ channel' = 0
            /\ err' = [err EXCEPT ![p] = ErrEstablishing]
            /\ pc' = [pc EXCEPT ![p] = "done"]
            /\ chans' = chans
  /\ UNCHANGED <<client, conns, clients, frames, op, call, argMessage, conn, used,
                 ncalls, overlap, prev>>
  /\ UNCHANGED <<uvars, mvars, cvars>>

\* PublishMessage: b.channel.Publish(messageArgs(message))
Publish(p) ==
  /\ pc[p] = "publish"
  /\ IF channel = 0
     THEN /\ pc' = [q \in Procs |-> "crashed"]
          /\ err' = [err EXCEPT ![p] = Panic]
          /\ UNCHANGED <<frames, used>>
     ELSE \E ok \in BOOLEAN, now \in Times :
            LET accepted == chans[channel].open /\ ok
            IN /\ frames' = IF accepted
                            THEN Append(frames, [call |-> call[p], chan |-> channel,
                                                 args |-> messageArgs(argMessage[p], now)])
                            ELSE frames
               /\ err' = [err EXCEPT ![p] = IF accepted THEN Nil ELSE ErrPublishing]
               /\ used' = [used EXCEPT ![p] = @ \cup {chans[channel].owner}]
               /\ pc' = [pc EXCEPT ![p] = "deferClose"]
  /\ UNCHANGED <<channel, client, conns, chans, clients, op, call, argMessage, conn,
                 ncalls, overlap, prev>>
  /\ UNCHANGED <<uvars, mvars, cvars>>

\* PublishMessage: the deferred _ = b.Close()
DeferredClose(p) ==
  /\ pc[p] = "deferClose"
  /\ \E ok \in BOOLEAN :
       LET r == Close(ok)
       IN /\ chans' = r.chans
          /\ used' = [used EXCEPT ![p] = @ \cup r.used]
  /\ pc' = [pc EXCEPT ![p] = "done"]
  /\ UNCHANGED <<channel, client, conns, clients, frames, op, call, argMessage, conn, err,
                 ncalls, overlap, prev>>
  /\ UNCHANGED <<uvars, mvars, cvars>>

\* the exported Close, called by the user of the instance
CloseCall(p) ==
  /\ pc[p] = "close"
  /\ \E ok \in BOOLEAN :
       LET r == Close(ok)
       IN /\ chans' = r.chans
          /\ used' = [used EXCEPT ![p] = @ \cup r.used]
          /\ err' = [err EXCEPT ![p] = r.err]
  /\ pc' = [pc EXCEPT ![p] = "done"]
  /\ UNCHANGED <<channel, client, conns, clients, frames, op, call, argMessage, conn,
                 ncalls, overlap, prev>>
  /\ UNCHANGED <<uvars, mvars, cvars>>

\* setupClient: the client rabbithole.NewTLSClient returns for call c, with a
\* transport of its own whose TLS configuration has InsecureSkipVerify set
NewTLSClient(c) ==
  [owner |-> c, uri |-> apiURI(config), user |-> config.User,
   password |-> config.Password, insecure |-> TRUE]

\* setupClient: rabbithole.NewTLSClient(...), b.client = client
SetupClient(p) ==
  /\ pc[p] = "setupClient"
  /\ IF ParsesAsURL(config)
       THEN /\ clients' = Append(clients, NewTLSClient(call[p]))
            /\ client' = Len(clients) + 1
            /\ pc' = [pc EXCEPT ![p] = "request"]
            /\ err' = err
       ELSE /\ err' = [err EXCEPT ![p] = ErrClient]
            /\ pc' = [pc EXCEPT ![p] = "done"]
            /\ UNCHANGED <<clients, client>>
  /\ UNCHANGED <<channel, conns, chans, frames, op, call, argMessage, conn, used, ncalls,
                 overlap, prev>>
  /\ UNCHANGED <<uvars, mvars, cvars>>

\* a management operation sends its request through b.client
ClientRequest(p) ==
  /\ pc[p] = "request"
  /\ used' = [used EXCEPT ![p] = @ \cup {clients[client].owner}]
  /\ \E ok \in BOOLEAN : err' = [err EXCEPT ![p] = IF ok THEN Nil ELSE ErrRequest]
  /\ pc' = [pc EXCEPT ![p] = "done"]
  /\ UNCHANGED <<channel, client, conns, chans, clients, frames, op, call,
                 argMessage, conn, ncalls, overlap, prev>>
  /\ UNCHANGED <<uvars, mvars, cvars>>

\* the operation returns to its caller
Return(p) ==
  /\ pc[p] = "done"
  /\ prev' = [op |-> op[p], err |-> err[p]]
  /\ pc' = [pc EXCEPT ![p] = "idle"]
  /\ op' = [op EXCEPT ![p] = "none"]
  /\ call' = [call EXCEPT ![p] = 0]
  /\ argMessage' = [argMessage EXCEPT ![p] = NoMessage]
  /\ conn' = [conn EXCEPT ![p] = 0]
  /\ err' = [err EXCEPT ![p] = Nil]
  /\ used' = [used EXCEPT ![p] = {}]
  /\ overlap' = [overlap EXCEPT ![p] = {}]
  /\ UNCHANGED <<channel, client, conns, chans, clients, frames, ncalls>>
  /\ UNCHANGED <<uvars, mvars, cvars>>

(***************************************************************************)
(* Calls on one instance, one after another and concurrently               *)
(***************************************************************************)
NoPrev == [op |-> "none", err |-> Nil]

InitProvider ==
  /\ channel = 0
  /\ client = 0
  /\ conns = <<>>
  /\ chans = <<>>
  /\ clients = <<>>
  /\ frames = <<>>
  /\ pc = [p \in Procs |-> "idle"]
  /\ op = [p \in Procs |-> "none"]
  /\ call = [p \in Procs |-> 0]
  /\ argMessage = [p \in Procs |-> NoMessage]
  /\ conn = [p \in Procs |-> 0]
  /\ err = [p \in Procs |-> Nil]
  /\ used = [p \in Procs |-> {}]
  /\ overlap = [p \in Procs |-> {}]
  /\ ncalls = 0
  /\ prev = NoPrev

\* the configurations of the provider: an address that url.Parse accepts
\* and one whose port it rejects
ProviderConfigs ==
  {[Address |-> a, User |-> <<"u">>, Password |-> <<"p">>] :
     a \in {<<"h">>, <<"h", Colon, "h">>}}

InitURIIdle ==
  /\ config \in ProviderConfigs
  /\ uriOut = NoURI

InitBrokerIdle ==
  /\ exchanges = <<>>
  /\ queues = <<>>
  /\ bindings = <<>>
  /\ request = Nil
  /\ ret = [op |-> "none"]

\* no command line is running
InitCLIIdle ==
  /\ options = [headers |-> <<>>]
  /\ args = [exchange |-> "", routingKey |-> "", body |-> ""]
  /\ cli = [pc |-> "none", err |-> Nil]

InitSeq == InitProvider /\ InitURIIdle /\ InitBrokerIdle /\ InitCLIIdle

Step(p, bound) ==
  \/ StartPublishMessage(p, bound)
  \/ StartClose(p, bound)
  \/ StartClientOp(p, bound)
  \/ SetupChannelClose(p)
  \/ SetupChannelDial(p)
  \/ SetupChannelOpen(p)
  \/ Publish(p)
  \/ DeferredClose(p)
  \/ CloseCall(p)
  \/ SetupClient(p)
  \/ ClientRequest(p)
  \/ Return(p)

NextSeq == \E p \in SeqProcs : Step(p, MaxCalls)

SpecSeq == InitSeq /\ [][NextSeq]_vars

NextConc == \E p \in Procs : Step(p, MaxConcCalls)

SpecConc == InitSeq /\ [][NextConc]_vars

(***************************************************************************)
(* Claims about PublishMessage, Close and the handles of the instance      *)
(***************************************************************************)
Returned(p, o) == pc[p] = "done" /\ op[p] = o

\* C1: when PublishMessage returns, every connection and every channel that
\* the call opened has been closed.
C1_PublishReleasesAll ==
  \A p \in Procs :
    Returned(p, "PublishMessage") =>
      /\ \A i \in 1..Len(conns) : conns[i].owner = call[p] => ~conns[i].open
      /\ \A i \in 1..Len(chans) : chans[i].owner = call[p] => ~chans[i].open

\* C2: the outcome of an operation does not depend on the operations that ran
\* on the instance before: a PublishMessage fails only because the broker
\* refused the dial, the channel or the frame of this very call.
C2_OutcomeIndependent ==
  \A p \in Procs :
    (Returned(p, "PublishMessage") /\ err[p] # Nil) =>
      err[p] \in {ErrDialling, ErrEstablishing, ErrPublishing}

\* C3: an operation never publishes on, closes or sends a request through a
\* handle that was created by an operation running concurrently with it.
C3_OwnHandlesOnly ==
  \A p \in Procs : used[p] \cap overlap[p] = {}

\* C4: Close is idempotent: it returns no error in every state of the
\* instance, the channel is released when it returns, and a Close directly
\* after a Close returns the same result.
C4_CloseIdempotent ==
  \A p \in Procs :
    Returned(p, "Close") =>
      /\ err[p] = Nil
      /\ channel # 0 => ~chans[channel].open
      /\ prev.op = "Close" => err[p] = prev.err

(***************************************************************************)
(* URI and apiURI applied to every configuration                           *)
(***************************************************************************)
InitURI ==
  /\ InitCLIIdle
  /\ config \in Configs
  /\ uriOut = NoURI
  /\ InitProvider
  /\ InitBrokerIdle

CallURI ==
  /\ uriOut' = [fn |-> "URI", val |-> URI(config)]
  /\ UNCHANGED <<config, pvars, mvars, cvars>>

CallApiURI ==
  /\ uriOut' = [fn |-> "apiURI", val |-> apiURI(config)]
  /\ UNCHANGED <<config, pvars, mvars, cvars>>

NextURI == CallURI \/ CallApiURI

SpecURI == InitURI /\ [][NextURI]_vars

HostChars == AddrChars \ {Colon}
Hosts == SeqsUpTo(HostChars, MaxAddrLen)

AmqpForm(user, password, host, port) ==
  <<"a", "m", "q", "p", ":", "/", "/">> \o user \o <<":">> \o password
    \o <<"@">> \o host \o <<":">> \o port

HttpsForm(host, port) ==
  <<"h", "t", "t", "p", "s", ":", "/", "/">> \o host \o <<":">> \o port

ExchangeNames == {"a", "b"}
ExchangeTypes == {"direct", "topic"}
QueueNames == {"", "a"}
GeneratedName == "amq.gen-1"
PredeclaredExchange ==
  [Name |-> "amq.topic", Type |-> "topic", Durable |-> TRUE,
   AutoDelete |-> FALSE, Internal |-> TRUE]

ExistingQueue ==
  [Name |-> "a", Durable |-> FALSE, AutoDelete |-> FALSE, Node |-> "rabbit@n1",
   MessagesUnacknowledged |-> 0, msgs |-> <<>>]

\* Exchange values a caller passes
Exchange ==
  [Name : ExchangeNames, Type : ExchangeTypes, Durable : BOOLEAN,
   AutoDelete : {FALSE}, Internal : {FALSE}, NoWait : {FALSE}]

\* Queue values a caller passes
Queue ==
  [Name : QueueNames, Type : {"classic"}, Durable : {FALSE}, AutoDelete : {FALSE},
   Messages : {0}, Node : {""}, MessagesUnAck : {0}]

\* Binding values a caller passes
Binding ==
  [Type : {"queue", "exchange"},
   From : {[Name |-> n] : n \in ExchangeNames \cup {PredeclaredExchange.Name}},
   TargetName : {"a"}, Key : {"k"}]

\* records of the fetch response (getMessagesResponseBody)
Record1 ==
  [payload_bytes |-> 1, redelivered |-> FALSE, exchange |-> "a",
   routing_key |-> "k", headers |-> {<<"h", "v">>}, payload |-> "x"]
Record2 ==
  [payload_bytes |-> 2, redelivered |-> FALSE, exchange |-> "b",
   routing_key |-> "", headers |-> {}, payload |-> "yy"]

\* a Go slice: the nil slice and an allocated slice of length 0 differ in nil
NilSlice == [nil |-> TRUE, elems |-> <<>>]
MakeSlice(elems) == [nil |-> FALSE, elems |-> elems]
AppendSlice(sl, e) == [nil |-> FALSE, elems |-> Append(sl.elems, e)]

IndexByName(infos, name) ==
  IF \E i \in 1..Len(infos) : infos[i].Name = name
  THEN CHOOSE i \in 1..Len(infos) : infos[i].Name = name
  ELSE 0

Remove(infos, i) == SubSeq(infos, 1, i - 1) \o SubSeq(infos, i + 1, Len(infos))

Min(a, b) == IF a < b THEN a ELSE b

ResponseErrorUnlessCreated(method, status) == status # 201

\* rabbithole.parseResponseErrors: which responses the client library
\* turns into an error
ResponseError(method, status) ==
  IF status = 401 THEN TRUE
  ELSE IF method = "DELETE" /\ status = 404 THEN FALSE
  ELSE status >= 400

\* PUT /api/exchanges/%2F/name
PutExchange(name, settings) ==
  LET i == IndexByName(exchanges, name)
      info == [Name |-> name, Type |-> settings.Type, Durable |-> settings.Durable,
               AutoDelete |-> settings.AutoDelete, Internal |-> FALSE]
  IN IF i = 0 THEN [status |-> 201, exchanges |-> Append(exchanges, info)]
     ELSE IF exchanges[i] = info THEN [status |-> 204, exchanges |-> exchanges]
     ELSE [status |-> 400, exchanges |-> exchanges]

\* PUT /api/queues/%2F/name; for an empty name the server either refuses the
\* request or declares a queue under a name it generates
PutQueue(name, settings, generate) ==
  LET actual == IF name = "" THEN GeneratedName ELSE name
      i == IndexByName(queues, actual)
      info == [Name |-> actual, Durable |-> settings.Durable,
               AutoDelete |-> settings.AutoDelete, Node |-> "rabbit@n1",
               MessagesUnacknowledged |-> 0, msgs |-> <<>>]
  IN IF name = "" /\ ~generate THEN [status |-> 405, queues |-> queues, name |-> ""]
     ELSE IF i = 0
       THEN [status |-> 201, queues |-> Append(queues, info), name |-> actual]
     ELSE IF queues[i].Durable = info.Durable /\ queues[i].AutoDelete = info.AutoDelete
       THEN [status |-> 204, queues |-> queues, name |-> actual]
     ELSE [status |-> 400, queues |-> queues, name |-> actual]

\* POST /api/bindings/%2F/e/source/{q,e}/destination
PostBinding(info) ==
  LET targets == IF info.DestinationType = "queue" THEN queues ELSE exchanges
  IN IF IndexByName(exchanges, info.Source) = 0
          \/ IndexByName(targets, info.Destination) = 0
     THEN [status |-> 404, bindings |-> bindings]
     ELSE IF \E i \in 1..Len(bindings) : bindings[i] = info
       THEN [status |-> 201, bindings |-> bindings]
     ELSE [status |-> 201, bindings |-> Append(bindings, info)]

\* DELETE /api/exchanges/%2F/name and DELETE /api/queues/%2F/name
DeleteByName(infos, name) ==
  LET i == IndexByName(infos, name)
  IN IF i = 0 THEN [status |-> 404, infos |-> infos]
     ELSE [status |-> 204, infos |-> Remove(infos, i)]

\* POST /api/queues/%2F/name/get: the first count messages are delivered;
\* the ackmode decides whether they go back to the queue
PostGet(name, body) ==
  LET i == IndexByName(queues, name)
  IN IF name = "" \/ i = 0 THEN [status |-> 404, queues |-> queues, body |-> <<>>]
     ELSE LET n == Min(body.count, Len(queues[i].msgs))
              got == SubSeq(queues[i].msgs, 1, n)
              rest == SubSeq(queues[i].msgs, n + 1, Len(queues[i].msgs))
              keep == body.ackmode \in {"ack_requeue_true", "reject_requeue_true"}
          IN [status |-> 200,
              queues |-> IF keep THEN queues ELSE [queues EXCEPT ![i].msgs = rest],
              body |-> got]

(***************************************************************************)
(* The management operations of the provider, one call after another       *)
(***************************************************************************)
\* the transport step of a management operation that failed, if any
FailedStep(parses, ok, status) ==
  IF ~parses THEN "client setup"
  ELSE IF ~ok THEN "request send"
  ELSE IF status >= 400 THEN "non-success response"
  ELSE "none"

\* the HTTP session an operation sends its request through: the client that
\* setupClient has just stored in b.client
NoSession == [owner |-> 0, uri |-> <<>>, user |-> <<>>, password |-> <<>>,
              insecure |-> FALSE]
ClientSession ==
  IF ParsesAsURL(config) THEN NewTLSClient(ncalls + 1) ELSE NoSession

\* setupClient as the first step of an operation: b.client is replaced by a
\* client created for this call
OpenClient ==
  /\ ncalls < MaxMgmtCalls
  /\ ncalls' = ncalls + 1
  /\ IF ParsesAsURL(config)
     THEN /\ clients' = Append(clients, NewTLSClient(ncalls + 1))
          /\ client' = Len(clients) + 1
     ELSE UNCHANGED <<clients, client>>
  /\ UNCHANGED <<channel, conns, chans, frames, pc, op, call, argMessage, conn, err, used,
                 overlap, prev>>

\* buneary.CreateExchange
CreateExchange(exchange) ==
  \E ok \in BOOLEAN :
    LET r == PutExchange(exchange.Name,
                         [Type |-> exchange.Type, Durable |-> exchange.Durable,
                          AutoDelete |-> exchange.AutoDelete])
        failed == ~ok \/ ResponseError("PUT", r.status)
    IN /\ OpenClient
       /\ exchanges' = IF ParsesAsURL(config) /\ ok THEN r.exchanges ELSE exchanges
       /\ ret' = [op |-> "CreateExchange", arg |-> exchange,
                  step |-> FailedStep(ParsesAsURL(config), ok, r.status),
                  session |-> ClientSession,
                  again |-> ret.op = "CreateExchange" /\ ret.err = Nil
                              /\ ret.arg = exchange,
                  before |-> exchanges,
                  after |-> IF ParsesAsURL(config) /\ ok THEN r.exchanges
                            ELSE exchanges,
                  err |-> IF ~ParsesAsURL(config) THEN ErrClient
                          ELSE IF failed THEN "declaring exchange" ELSE Nil]
       /\ UNCHANGED <<queues, bindings, request, uvars, cvars>>

\* buneary.CreateQueue
CreateQueue(queue) ==
  \E ok \in BOOLEAN, generate \in BOOLEAN :
    LET r == PutQueue(queue.Name,
                      [Type |-> queue.Type, Durable |-> queue.Durable,
                       AutoDelete |-> queue.AutoDelete], generate)
        failed == ~ok \/ ResponseError("PUT", r.status)
    IN /\ OpenClient
       /\ queues' = IF ParsesAsURL(config) /\ ok THEN r.queues ELSE queues
       /\ ret' = [op |-> "CreateQueue", arg |-> queue, val |-> "",
                  step |-> FailedStep(ParsesAsURL(config), ok, r.status),
                  session |-> ClientSession,
                  again |-> ret.op = "CreateQueue" /\ ret.err = Nil
                              /\ ret.arg = queue,
                  before |-> queues,
                  after |-> IF ParsesAsURL(config) /\ ok THEN r.queues ELSE queues,
                  declared |-> IF ParsesAsURL(config) /\ ~failed THEN r.name ELSE "",
                  err |-> IF ~ParsesAsURL(config) THEN ErrClient
                          ELSE IF failed THEN "declaring queue" ELSE Nil]
       /\ UNCHANGED <<exchanges, bindings, request, uvars, cvars>>

\* buneary.CreateBinding
CreateBinding(binding) ==
  \E ok \in BOOLEAN :
    LET r == PostBinding([Source |-> binding.From.Name,
                          Destination |-> binding.TargetName,
                          DestinationType |-> binding.Type,
                          RoutingKey |-> binding.Key])
        failed == ~ok \/ ResponseError("POST", r.status)
    IN /\ OpenClient
       /\ bindings' = IF ParsesAsURL(config) /\ ok THEN r.bindings ELSE bindings
       /\ ret' = [op |-> "CreateBinding", arg |-> binding,
                  step |-> FailedStep(ParsesAsURL(config), ok, r.status),
                  session |-> ClientSession,
                  again |-> ret.op = "CreateBinding" /\ ret.err = Nil
                              /\ ret.arg = binding,
                  before |-> bindings,
                  after |-> IF ParsesAsURL(config) /\ ok THEN r.bindings
                            ELSE bindings,
                  err |-> IF ~ParsesAsURL(config) THEN ErrClient
                          ELSE IF failed THEN "declaring binding" ELSE Nil]
       /\ UNCHANGED <<exchanges, queues, request, uvars, cvars>>

RECURSIVE FilterLoopUnfiltered(_, _, _)
FilterLoopUnfiltered(mapped, filter, acc) ==
  IF mapped = <<>> THEN acc
  ELSE FilterLoopUnfiltered(Tail(mapped), filter,
                            [xs |-> AppendSlice(acc.xs, Head(mapped)),
                             calls |-> acc.calls])

RECURSIVE FilterLoopFromTheEnd(_, _, _)
FilterLoopFromTheEnd(mapped, filter, acc) ==
  IF mapped = <<>> THEN acc
  ELSE LET x == mapped[Len(mapped)]
       IN FilterLoopFromTheEnd(SubSeq(mapped, 1, Len(mapped) - 1), filter,
                               [xs |-> IF filter[x] THEN AppendSlice(acc.xs, x)
                                       ELSE acc.xs,
                                calls |-> Append(acc.calls, x)])

\* the loops of GetExchanges, GetQueues and GetBindings: var xs []X, then
\* append(xs, x) for every mapped record that passes the filter; calls are
\* the values the filter has been called with
RECURSIVE FilterLoop(_, _, _)
FilterLoop(mapped, filter, acc) ==
  IF mapped = <<>> THEN acc
  ELSE FilterLoop(Tail(mapped), filter,
                  [xs |-> IF filter[Head(mapped)]
                          THEN AppendSlice(acc.xs, Head(mapped))
                          ELSE acc.xs,
                   calls |-> Append(acc.calls, Head(mapped))])

ExchangeOf(info) ==
  [Name |-> info.Name, Type |-> info.Type, Durable |-> info.Durable,
   AutoDelete |-> info.AutoDelete, Internal |-> info.Internal, NoWait |-> FALSE]

QueueOf(info) ==
  [Name |-> info.Name, Type |-> "", Durable |-> info.Durable,
   AutoDelete |-> info.AutoDelete, Messages |-> Len(info.msgs),
   Node |-> info.Node, MessagesUnAck |-> info.MessagesUnacknowledged]

BindingOf(info) ==
  [Type |-> info.DestinationType, From |-> [Name |-> info.Source],
   TargetName |-> info.Destination, Key |-> info.RoutingKey]

\* for _, info := range infos: the mapped values in the order of the response
ExchangesOf(infos) == [i \in 1..Len(infos) |-> ExchangeOf(infos[i])]
QueuesOf(infos) == [i \in 1..Len(infos) |-> QueueOf(infos[i])]
BindingsOf(infos) == [i \in 1..Len(infos) |-> BindingOf(infos[i])]

Range(f) == {f[i] : i \in DOMAIN f}

\* the filter functions a caller can pass: every predicate over the values
\* the server's snapshot maps to
Filters(mapped) == [Range(mapped) -> BOOLEAN]

\* before the loop: var xs []X is the nil slice, the filter was not called
NoneYet == [xs |-> NilSlice, calls |-> <<>>]

\* the common shape of GetExchanges, GetQueues and GetBindings
List(name, mapped, wrap) ==
  \E ok \in BOOLEAN, filter \in Filters(mapped) :
    /\ OpenClient
    /\ ret' = [op |-> name, filter |-> filter, snapshot |-> mapped,
               step |-> FailedStep(ParsesAsURL(config), ok, 200),
               session |-> ClientSession,
               val |-> IF ParsesAsURL(config) /\ ok
                       THEN FilterLoop(mapped, filter, NoneYet).xs
                       ELSE NilSlice,
               calls |-> IF ParsesAsURL(config) /\ ok
                         THEN FilterLoop(mapped, filter, NoneYet).calls
                         ELSE <<>>,
               err |-> IF ~ParsesAsURL(config) THEN ErrClient ELSE IF ~ok THEN wrap ELSE Nil]
    /\ UNCHANGED <<exchanges, queues, bindings, request, uvars, cvars>>

\* buneary.GetExchanges
GetExchanges == List("GetExchanges", ExchangesOf(exchanges), "listing exchanges")

\* buneary.GetQueues
GetQueues == List("GetQueues", QueuesOf(queues), "listing queues")

\* buneary.GetBindings
GetBindings == List("GetBindings", BindingsOf(bindings), "listing bindings")

MessageOfKeyAsTarget(m) ==
  [Target |-> [Name |-> m.routing_key], Headers |-> m.headers,
   RoutingKey |-> m.exchange, Body |-> m.payload]

\* GetMessages: the Message built from one record of the response
MessageOf(m) ==
  [Target |-> [Name |-> m.exchange], Headers |-> m.headers,
   RoutingKey |-> m.routing_key, Body |-> m.payload]

MessagesOf(body) == [i \in 1..Len(body) |-> MessageOf(body[i])]

AckmodeByRequeue(max, requeue) ==
  [count |-> max, requeue |-> requeue, encoding |-> "auto",
   ackmode |-> IF requeue THEN "ack_requeue_true" ELSE "ack_requeue_false"]

\* GetMessages: requestBody
RequestBody(max, requeue) ==
  [count |-> max, requeue |-> requeue, encoding |-> "auto",
   ackmode |-> "ack_requeue_true"]

MsgsIn(qs, name) ==
  IF IndexByName(qs, name) = 0 THEN <<>> ELSE qs[IndexByName(qs, name)].msgs

\* http.Response.Status of the responses the server gives
StatusText(status) ==
  CASE status = 200 -> "200 OK"
    [] status = 404 -> "404 Not Found"
    [] status = 500 -> "500 Internal Server Error"

Non200ErrorBare(status) == "RabbitMQ server returned non-200 status"

\* GetMessages: fmt.Errorf("... non-200 status: %s", response.Status)
Non200Error(status) ==
  "RabbitMQ server returned non-200 status: " \o StatusText(status)

\* the errors GetMessages hands on as http.Client.Do and the JSON decoder
\* return them
ErrSend == "Post: dial tcp: connection refused"
ErrDecode == "invalid character in the response body"
ErrCreatingRequest == "creating POST request"

\* what the server side does with a fetch request: it answers it, the
\* connection is refused, the server answers 500 without touching the queue,
\* or it serves the request and the body it sends is not the JSON expected
Outcomes == {"ok", "refused", "fault", "garbled"}

\* (&http.Client{}).Do(request): a client without a Transport uses
\* http.DefaultTransport, which exists once per process, is created by no
\* call and validates the server's certificate; request.SetBasicAuth adds
\* the configured user and password
DefaultClientSession ==
  [owner |-> 0, uri |-> apiURI(config), user |-> config.User,
   password |-> config.Password, insecure |-> FALSE]

\* buneary.GetMessages: no rabbit-hole client, a plain http.Client
GetMessages(queue, max, requeue) ==
  \E outcome \in Outcomes :
    LET body == RequestBody(max, requeue)
        parses == ParsesAsURL(config)
        sent == parses /\ outcome # "refused"
        served == sent /\ outcome # "fault"
        r == PostGet(queue.Name, body)
        status == IF ~sent THEN 0 ELSE IF served THEN r.status ELSE 500
        decoded == status = 200 /\ outcome # "garbled"
    IN /\ ncalls < MaxMgmtCalls
       /\ ncalls' = ncalls + 1
       /\ request' = body
       /\ queues' = IF served THEN r.queues ELSE queues
       /\ ret' = [op |-> "GetMessages", queue |-> queue.Name, max |-> max,
                  requeue |-> requeue, before |-> MsgsIn(queues, queue.Name),
                  after |-> MsgsIn(IF served THEN r.queues ELSE queues,
                                   queue.Name),
                  status |-> status,
                  records |-> IF decoded THEN r.body ELSE <<>>,
                  step |-> IF ~parses THEN "request creation"
                           ELSE IF ~sent THEN "request send"
                           ELSE IF status # 200 THEN "non-success response"
                           ELSE IF ~decoded THEN "response decode"
                           ELSE "none",
                  session |-> IF parses THEN DefaultClientSession ELSE NoSession,
                  val |-> IF decoded THEN MakeSlice(MessagesOf(r.body))
                          ELSE NilSlice,
                  err |-> IF ~parses THEN ErrCreatingRequest
                          ELSE IF ~sent THEN ErrSend
                          ELSE IF status # 200 THEN Non200Error(status)
                          ELSE IF ~decoded THEN ErrDecode
                          ELSE Nil]
       /\ UNCHANGED <<exchanges, bindings, uvars, cvars>>
       /\ UNCHANGED <<channel, client, conns, chans, clients, frames, pc, op,
                      call, argMessage, conn, err, used, overlap, prev>>

\* buneary.DeleteExchange
DeleteExchange(exchange) ==
  \E ok \in BOOLEAN :
    LET r == DeleteByName(exchanges, exchange.Name)
        failed == ~ok \/ ResponseError("DELETE", r.status)
    IN /\ OpenClient
       /\ exchanges' = IF ParsesAsURL(config) /\ ok THEN r.infos ELSE exchanges
       /\ ret' = [op |-> "DeleteExchange", name |-> exchange.Name,
                  step |-> FailedStep(ParsesAsURL(config), ok, r.status),
                  session |-> ClientSession,
                  existed |-> IndexByName(exchanges, exchange.Name) # 0,
                  err |-> IF ~ParsesAsURL(config) THEN ErrClient
                          ELSE IF failed THEN "deleting exchange" ELSE Nil]
       /\ UNCHANGED <<queues, bindings, request, uvars, cvars>>

\* buneary.DeleteQueue
DeleteQueue(queue) ==
  \E ok \in BOOLEAN :
    LET r == DeleteByName(queues, queue.Name)
        failed == ~ok \/ ResponseError("DELETE", r.status)
    IN /\ OpenClient
       /\ queues' = IF ParsesAsURL(config) /\ ok THEN r.infos ELSE queues
       /\ ret' = [op |-> "DeleteQueue", name |-> queue.Name,
                  step |-> FailedStep(ParsesAsURL(config), ok, r.status),
                  session |-> ClientSession,
                  existed |-> IndexByName(queues, queue.Name) # 0,
                  err |-> IF ~ParsesAsURL(config) THEN ErrClient
                          ELSE IF failed THEN "deleting queue" ELSE Nil]
       /\ UNCHANGED <<exchanges, bindings, request, uvars, cvars>>

\* another client of the broker publishes Record1, Record2, Record1, ... and
\* the broker routes the next of them into a queue
Deliver ==
  /\ \E i \in 1..Len(queues) :
       /\ Len(queues[i].msgs) < MaxMsgs
       /\ queues' = [queues EXCEPT ![i].msgs =
                       Append(@, IF Len(@) % 2 = 0 THEN Record1 ELSE Record2)]
  /\ UNCHANGED <<exchanges, bindings, request, ret, uvars, pvars, cvars>>

InitMgmt ==
  /\ InitProvider
  /\ InitCLIIdle
  /\ InitURIIdle
  /\ exchanges = <<PredeclaredExchange>>
  /\ queues \in {<<>>, <<ExistingQueue>>}
  /\ bindings = <<>>
  /\ request = Nil
  /\ ret = [op |-> "none"]

NextMgmt ==
  \/ \E exchange \in Exchange : CreateExchange(exchange)
  \/ \E queue \in Queue : CreateQueue(queue)
  \/ \E binding \in Binding : CreateBinding(binding)
  \/ GetExchanges
  \/ GetQueues
  \/ GetBindings
  \/ \E queue \in Queue, max \in 0..(MaxMsgs + 1), requeue \in BOOLEAN :
       GetMessages(queue, max, requeue)
  \/ \E exchange \in Exchange : DeleteExchange(exchange)
  \/ \E queue \in Queue : DeleteQueue(queue)
  \/ Deliver

SpecMgmt == InitMgmt /\ [][NextMgmt]_vars

(***************************************************************************)
(* Claims about the management operations                                  *)
(***************************************************************************)
\* C5: CreateQueue called with an empty Name and succeeding returns the
\* non-empty name the server generated for the queue.
C5_GeneratedNameReturned ==
  (ret.op = "CreateQueue" /\ ret.arg.Name = "" /\ ret.err = Nil) =>
    /\ ret.val # ""
    /\ ret.val = ret.declared

\* C6: GetMessages sends count = max, requeue = the caller's flag, encoding
\* "auto" and ackmode "ack_requeue_true" for every max and requeue, and the
\* messages it fetched are back in the queue when it returns.
C6_FetchRequest ==
  ret.op = "GetMessages" =>
    /\ request = [count |-> ret.max, requeue |-> ret.requeue,
                  encoding |-> "auto", ackmode |-> "ack_requeue_true"]
    /\ ret.after = ret.before

C6_Witness ==
  /\ ret.op = "GetMessages"
  /\ ret.err = Nil
  /\ ~ret.requeue
  /\ Len(ret.val.elems) = 2
  /\ request.ackmode = "ack_requeue_true"
  /\ ret.after = ret.before

\* C7: GetMessages re-queues the messages it read when requeue is true and
\* removes them from the queue when requeue is false.
C7_RequeueFalseRemoves ==
  (ret.op = "GetMessages" /\ ret.err = Nil) =>
    IF ret.requeue
    THEN ret.after = ret.before
    ELSE ret.after = SubSeq(ret.before, Len(ret.val.elems) + 1, Len(ret.before))

IsList == ret.op \in {"GetExchanges", "GetQueues", "GetBindings"}
AllPass == \A x \in DOMAIN ret.filter : ret.filter[x]
NonePass == \A x \in DOMAIN ret.filter : ~ret.filter[x]

\* C9 as stated: with a predicate true for every record the list operations
\* return every record of the server; with a predicate true for none they
\* return an empty sequence that is not null.
C9_EmptyNeverNil ==
  (IsList /\ ret.err = Nil) =>
    /\ AllPass => ret.val.elems = ret.snapshot
    /\ NonePass => (ret.val.elems = <<>> /\ ~ret.val.nil)

\* C9 as amended: with a predicate true for every record the list operations
\* return every record of the server; with a predicate true for none they
\* return a sequence of length zero, which is the nil slice.
C9_EmptyIsNilSlice ==
  (IsList /\ ret.err = Nil) =>
    /\ AllPass => ret.val.elems = ret.snapshot
    /\ NonePass => (ret.val.elems = <<>> /\ ret.val.nil)

C9_Witness ==
  /\ ret.op = "GetExchanges"
  /\ ret.err = Nil
  /\ Len(ret.snapshot) = 2
  /\ NonePass
  /\ ret.val = NilSlice

\* C10: DeleteExchange and DeleteQueue return an error whenever the named
\* exchange or queue does not exist on the server.
C10_DeleteMissingFails ==
  (ret.op \in {"DeleteExchange", "DeleteQueue"} /\ ~ret.existed) => ret.err # Nil

(***************************************************************************)
(* Claims about the errors of the management operations                    *)
(***************************************************************************)
\* the errors that carry a message of the operation or of its setup step
Wrapped ==
  {ErrClient, ErrCreatingRequest, "declaring exchange", "declaring queue",
   "declaring binding", "listing exchanges", "listing queues",
   "listing bindings", "deleting exchange", "deleting queue",
   "RabbitMQ server returned non-200 status: 404 Not Found",
   "RabbitMQ server returned non-200 status: 500 Internal Server Error"}

\* C11: whenever a transport step of a Provider operation fails (client
\* setup, request creation or send, non-success response, response decode),
\* the operation returns an error wrapped with a message of the operation;
\* no failure is swallowed.
C11_FailuresWrapped ==
  (ret.op # "none" /\ ret.step # "none") => ret.err \in Wrapped

\* C12: for every response whose status is not a success status GetMessages
\* returns an error that carries the response's status text, and no messages.
C12_Non200IsError ==
  (ret.op = "GetMessages" /\ ret.status # 0 /\ ret.status \notin 200..299) =>
    /\ ret.status = 404 =>
         ret.err = "RabbitMQ server returned non-200 status: 404 Not Found"
    /\ ret.status = 500 =>
         ret.err = "RabbitMQ server returned non-200 status: 500 Internal Server Error"
    /\ ret.err # Nil
    /\ ret.val = NilSlice

C12_Witness ==
  /\ ret.op = "GetMessages"
  /\ ret.status = 404
  /\ ret.err = "RabbitMQ server returned non-200 status: 404 Not Found"
  /\ ret.val = NilSlice

Declares == {"CreateExchange", "CreateQueue", "CreateBinding"}

\* C13: a CreateExchange that follows a successful CreateExchange with the
\* same settings and reaches the server returns no error and leaves the
\* server's exchanges as they were; the same for CreateQueue with a
\* non-empty name and for CreateBinding.
C13_DeclareTwiceIdempotent ==
  (/\ ret.op \in Declares
   /\ ret.again
   /\ ret.op = "CreateQueue" => ret.arg.Name # ""
   /\ ret.step \notin {"client setup", "request send"}) =>
    /\ ret.err = Nil
    /\ ret.after = ret.before

C13_Witness ==
  /\ ret.op = "CreateExchange"
  /\ ret.again
  /\ ret.err = Nil
  /\ Len(ret.before) = 2
  /\ ret.after = ret.before

\* C14: GetMessages(queue, max, requeue) on a queue holding n messages
\* returns min(max, n) Message values; the i-th has Body, RoutingKey,
\* Target.Name and Headers equal to payload, routing_key, exchange and
\* headers of the i-th record of the response.
C14_FetchedMessages ==
  (ret.op = "GetMessages" /\ ret.err = Nil) =>
    /\ ~ret.val.nil
    /\ Len(ret.val.elems) = Min(ret.max, Len(ret.before))
    /\ Len(ret.val.elems) = Len(ret.records)
    /\ \A i \in 1..Len(ret.val.elems) :
         /\ ret.records[i] = ret.before[i]
         /\ ret.val.elems[i].Body = ret.records[i].payload
         /\ ret.val.elems[i].RoutingKey = ret.records[i].routing_key
         /\ ret.val.elems[i].Target.Name = ret.records[i].exchange
         /\ ret.val.elems[i].Headers = ret.records[i].headers

C14_Witness ==
  /\ ret.op = "GetMessages"
  /\ ret.err = Nil
  /\ ret.max = 1
  /\ Len(ret.before) = 2
  /\ Len(ret.val.elems) = 1
  /\ ret.val.elems[1] = [Target |-> [Name |-> "a"], Headers |-> {<<"h", "v">>},
                         RoutingKey |-> "k", Body |-> "x"]

OpenChannels == {i \in 1..Len(chans) : chans[i].open}

Passing == SelectSeq(ret.snapshot, LAMBDA x : ret.filter[x])

\* the snapshot holds one value per record of the server, in its order
SnapshotOfServer ==
  CASE ret.op = "GetExchanges" ->
         /\ Len(ret.snapshot) = Len(exchanges)
         /\ \A i \in 1..Len(exchanges) : ret.snapshot[i].Name = exchanges[i].Name
    [] ret.op = "GetQueues" ->
         /\ Len(ret.snapshot) = Len(queues)
         /\ \A i \in 1..Len(queues) : ret.snapshot[i].Name = queues[i].Name
    [] ret.op = "GetBindings" ->
         /\ Len(ret.snapshot) = Len(bindings)
         /\ \A i \in 1..Len(bindings) :
              /\ ret.snapshot[i].From.Name = bindings[i].Source
              /\ ret.snapshot[i].TargetName = bindings[i].Destination

\* C17: GetExchanges, GetQueues and GetBindings return exactly the records of
\* the server for which the predicate is true, in the order of the response;
\* the predicate is called once per record; when the fetch fails they return
\* an error and no list.
C17_ExactSubsequence ==
  IsList =>
    IF ret.step = "none"
    THEN /\ ret.err = Nil
         /\ SnapshotOfServer
         /\ ret.val.elems = Passing
         /\ ret.calls = ret.snapshot
    ELSE /\ ret.err # Nil
         /\ ret.val = NilSlice

C17_Witness ==
  /\ ret.op = "GetExchanges"
  /\ ret.err = Nil
  /\ Len(ret.snapshot) = 2
  /\ ~ret.filter[ret.snapshot[1]]
  /\ ret.filter[ret.snapshot[2]]
  /\ ret.val.elems = <<ret.snapshot[2]>>
  /\ ret.calls = ret.snapshot

(***************************************************************************)
(* Claims about the HTTP sessions of the management operations             *)
(***************************************************************************)
\* C18: every management operation that sends a request, GetMessages
\* included, sends it through a session set up by this very call, with the
\* configured user and password and with certificate validation disabled.
C18_FreshInsecureSession ==
  (ret.op # "none" /\ ret.session # NoSession) =>
    /\ ret.session.owner = ncalls
    /\ ret.session.user = config.User
    /\ ret.session.password = config.Password
    /\ ret.session.insecure

(***************************************************************************)
(* The command line: buneary publish --headers ...                         *)
(***************************************************************************)
Space == " "
HeaderChars == {"k", "v", "=", ",", Space}

RECURSIVE TrimLeft(_)
TrimLeft(s) == IF s # <<>> /\ Head(s) = Space THEN TrimLeft(Tail(s)) ELSE s

RECURSIVE TrimRight(_)
TrimRight(s) ==
  IF s # <<>> /\ s[Len(s)] = Space THEN TrimRight(SubSeq(s, 1, Len(s) - 1)) ELSE s

\* strings.TrimSpace
TrimSpace(s) == TrimRight(TrimLeft(s))

ErrHeader == "expected header in form key=value"

SetHeaderKeepFirst(headers, key, value) ==
  IF \E h \in headers : h[1] = key THEN headers ELSE headers \cup {<<key, value>>}

\* message.Headers[key] = value, the map as the set of its pairs
SetHeader(headers, key, value) ==
  {h \in headers : h[1] # key} \cup {<<key, value>>}

RECURSIVE ParseHeadersSkipEmpty(_, _)
ParseHeadersSkipEmpty(elements, headers) ==
  IF elements = <<>> THEN [err |-> Nil, Headers |-> headers]
  ELSE LET tokens == Split(TrimSpace(Head(elements)), "=")
       IN IF TrimSpace(Head(elements)) = <<>>
          THEN ParseHeadersSkipEmpty(Tail(elements), headers)
          ELSE IF Len(tokens) # 2 THEN [err |-> ErrHeader, Headers |-> headers]
          ELSE ParseHeadersSkipEmpty(Tail(elements),
                                     SetHeader(headers, tokens[1], tokens[2]))

\* runPublish: the loop over strings.Split(options.headers, ",")
RECURSIVE ParseHeaders(_, _)
ParseHeaders(elements, headers) ==
  IF elements = <<>> THEN [err |-> Nil, Headers |-> headers]
  ELSE LET tokens == Split(TrimSpace(Head(elements)), "=")
       IN IF Len(tokens) # 2 THEN [err |-> ErrHeader, Headers |-> headers]
          ELSE ParseHeaders(Tail(elements),
                            SetHeader(headers, tokens[1], tokens[2]))

\* runPublish up to its call of PublishMessage on a provider of its own
RunPublish ==
  /\ cli.pc = "start"
  /\ LET parsed == ParseHeaders(Split(options.headers, ","), {})
     IN IF parsed.err # Nil
        THEN /\ cli' = [pc |-> "exit", err |-> parsed.err]
             /\ UNCHANGED <<pvars, uvars, mvars>>
        ELSE /\ cli' = [pc |-> "publishing", err |-> Nil]
             /\ Start(1, "PublishMessage", "setupChannel", 1,
                      [Target |-> [Name |-> args.exchange],
                       Headers |-> parsed.Headers,
                       RoutingKey |-> args.routingKey, Body |-> args.body])
  /\ UNCHANGED <<options, args>>

\* runPublish returns what PublishMessage returned
RunPublishReturn ==
  /\ cli.pc = "publishing"
  /\ pc[1] = "done"
  /\ cli' = [pc |-> "exit", err |-> err[1]]
  /\ UNCHANGED <<options, args, pvars, uvars, mvars>>

InitCLI ==
  /\ InitProvider
  /\ InitURIIdle
  /\ InitBrokerIdle
  /\ options \in [headers : SeqsUpTo(HeaderChars, MaxHeaderLen)]
  /\ args = [exchange |-> "a", routingKey |-> "k", body |-> "x"]
  /\ cli = [pc |-> "start", err |-> Nil]

NextCLI ==
  \/ RunPublish
  \/ SetupChannelClose(1)
  \/ SetupChannelDial(1)
  \/ SetupChannelOpen(1)
  \/ Publish(1)
  \/ DeferredClose(1)
  \/ RunPublishReturn

SpecCLI == InitCLI /\ [][NextCLI]_vars

(***************************************************************************)
(* Claims about the headers option of buneary publish                      *)
(***************************************************************************)
\* the elements of the headers option and what "key=value" means for one
Elements == Split(options.headers, ",")
CountOf(s, c) == Cardinality({i \in 1..Len(s) : s[i] = c})
KeyValue(e) == CountOf(e, "=") = 1
KeyOf(e) == SubSeq(TrimSpace(e), 1, IndexOf(TrimSpace(e), "=") - 1)
ValueOf(e) ==
  SubSeq(TrimSpace(e), IndexOf(TrimSpace(e), "=") + 1, Len(TrimSpace(e)))
LastOccurrences ==
  {i \in 1..Len(Elements) :
     \A j \in (i + 1)..Len(Elements) : KeyOf(Elements[j]) # KeyOf(Elements[i])}
Called == ncalls > 0

\* C19: when every comma-separated element of the headers option has the
\* form key=value, runPublish calls PublishMessage with Headers that map each
\* key to the value of its last occurrence; when some element does not,
\* runPublish returns an error and PublishMessage is never called.
C19_HeadersParsed ==
  IF \A i \in 1..Len(Elements) : KeyValue(Elements[i])
  THEN cli.pc # "start" =>
         /\ Called
         /\ cli.err # ErrHeader
         /\ argMessage[1].Headers =
              {<<KeyOf(Elements[i]), ValueOf(Elements[i])>> : i \in LastOccurrences}
  ELSE /\ ~Called
       /\ cli.pc # "start" => cli = [pc |-> "exit", err |-> ErrHeader]

C19_Witness ==
  /\ options.headers = <<"k", "=", ",", "k", "=", "v">>
  /\ cli = [pc |-> "exit", err |-> Nil]
  /\ Len(frames) = 1
  /\ frames[1].args.msg.Headers = {<< <<"k">>, <<"v">> >>}

\* C20: with the headers option left at its default, the empty string,
\* runPublish returns "expected header in form key=value" and never calls
\* PublishMessage; no message is published unless a well-formed header is
\* given.
C20_DefaultHeadersRejected ==
  /\ options.headers = <<>> =>
       /\ ~Called
       /\ frames = <<>>
       /\ cli.pc # "start" =>
            cli = [pc |-> "exit", err |-> "expected header in form key=value"]
  /\ frames # <<>> => \E i \in 1..Len(Elements) : KeyValue(Elements[i])

C20_Witness ==
  /\ options.headers = <<>>
  /\ cli = [pc |-> "exit", err |-> "expected header in form key=value"]
  /\ ~Called
  /\ frames = <<>>

====
